---- MODULE Spec2Model ----
(***************************************************************************)
(* Personal Finance Dashboard (src/app.py): the session state of the       *)
(* Streamlit script (the transaction frame and the budget mapping), one    *)
(* action per script run, and the derived-metric functions.                *)
(*                                                                         *)
(* Money is counted in units of 1000 rupees: every literal of the source   *)
(* (sample amounts, default budgets, default goals) is a multiple of 1000. *)
(* A calendar month is a number (1 is 2024-01, 2 is 2024-02, ...).         *)
(***************************************************************************)
EXTENDS Integers, Sequences, FiniteSets, TLC

VARIABLES df, budgets, page, now, op, msg, view, upload

vars == <<df, budgets, page, now, op, msg, view, upload>>

(***************************************************************************)
(* Bounds                                                                  *)
(***************************************************************************)
MaxRows == 2          \* the add form and the uploads stop growing the frame here
MaxMonth == 2         \* months 1..MaxMonth can be typed into the date input
FnMaxLen == 3         \* longest transaction set handed to the pure functions
Scale == 100          \* fixed-point denominator of the square root in the score

(***************************************************************************)
(* Cells of the frame.  A pandas cell keeps the Python type it was stored  *)
(* with: the form stores datetime.date and float, the sample Timestamp and *)
(* int, read_csv strings for dates and, for a column with any cell that is *)
(* not a number, strings for the amounts too.                              *)
(***************************************************************************)
DateOf(m, d) == [k |-> "date", m |-> m, d |-> d]
Stamp(m, d) == [k |-> "ts", m |-> m, d |-> d]
DateText(m, d) == [k |-> "str", m |-> m, d |-> d]
BadDateText == [k |-> "bad", m |-> 0, d |-> 0]
NaT == [k |-> "nat", m |-> 0, d |-> 0]

Num(n) == [k |-> "num", v |-> n]
NumText(n) == [k |-> "str", v |-> n]
BadNumText == [k |-> "bad", v |-> 0]
NaN == [k |-> "nan", v |-> 0]

NA == "<NA>"

ColumnNames == {"Date", "Amount", "Category", "Description"}

Row(date, amount, category, description) ==
    [Date |-> date, Amount |-> amount, Category |-> category, Description |-> description]

Frame(columns, rows) == [columns |-> columns, rows |-> rows]

EmptyFrame == Frame(ColumnNames, <<>>)

Months == 1..MaxMonth

FormCategories ==
    <<"Salary", "Food", "Shopping", "Transport", "Bills", "Investment",
      "Healthcare", "Entertainment", "Other">>

\* groupby sorts its keys: the categories in alphabetical order
SortedCategories ==
    <<"Bills", "Entertainment", "Food", "Healthcare", "Investment", "Other",
      "Salary", "Shopping", "Transport">>

(***************************************************************************)
(* Sequence helpers                                                        *)
(***************************************************************************)
Range(s) == {s[i] : i \in 1..Len(s)}

RECURSIVE SumSeq(_)
SumSeq(s) == IF s = <<>> THEN 0 ELSE Head(s) + SumSeq(Tail(s))

RECURSIVE SumSet(_, _)
SumSet(S, f) ==
    IF S = {} THEN 0
    ELSE LET x == CHOOSE y \in S : TRUE IN f[x] + SumSet(S \ {x}, f)

Min2(a, b) == IF a < b THEN a ELSE b
Max2(a, b) == IF a > b THEN a ELSE b
Abs(a) == IF a < 0 THEN -a ELSE a

\* A ratio num/den with den > 0; the code's floats are kept exact this way.
Ratio(num, den) == [num |-> num, den |-> den]
Zero == Ratio(0, 1)
Less(x, y) == x.num * y.den < y.num * x.den
LessEq(x, y) == x.num * y.den <= y.num * x.den

\* floor of the square root
RECURSIVE SqrtBetween(_, _, _)
SqrtBetween(n, lo, hi) ==
    IF lo >= hi THEN lo
    ELSE LET mid == (lo + hi + 1) \div 2
         IN IF mid * mid <= n THEN SqrtBetween(n, mid, hi)
            ELSE SqrtBetween(n, lo, mid - 1)

ISqrt(n) == SqrtBetween(n, 0, Min2(n, 46340))

(***************************************************************************)
(* Column selections used by every derived view                            *)
(***************************************************************************)
IsNumber(r) == r.Amount.k = "num"
IsIncome(r) == IsNumber(r) /\ r.Amount.v > 0       \* df["Amount"] > 0
IsExpense(r) == IsNumber(r) /\ r.Amount.v < 0      \* df["Amount"] < 0

Incomes(rows) == SelectSeq(rows, IsIncome)
Expenses(rows) == SelectSeq(rows, IsExpense)

RECURSIVE SumAmount(_)
SumAmount(rows) ==
    IF rows = <<>> THEN 0
    ELSE (IF IsNumber(Head(rows)) THEN Head(rows).Amount.v ELSE 0) + SumAmount(Tail(rows))

TotalIncome(rows) == SumAmount(Incomes(rows))
TotalExpenses(rows) == -SumAmount(Expenses(rows))

InCategory(rows, c) == SelectSeq(rows, LAMBDA r : r.Category = c)
InMonth(rows, m) == SelectSeq(rows, LAMBDA r : r.Date.k # "nat" /\ r.Date.m = m)

ExpenseCategories(rows) == {r.Category : r \in Range(Expenses(rows))} \ {NA}
ExpenseMonths(rows) == {r.Date.m : r \in {x \in Range(Expenses(rows)) : x.Date.k # "nat"}}


(***************************************************************************)
(* Exact arithmetic on ratios                                              *)
(***************************************************************************)
Plus(x, y) == Ratio(x.num * y.den + y.num * x.den, x.den * y.den)
Times(k, x) == Ratio(k * x.num, x.den)
MinRatio(x, y) == IF Less(y, x) THEN y ELSE x       \* min(x, y)
MaxRatio(x, y) == IF Less(x, y) THEN y ELSE x       \* max(x, y)
One == Ratio(1, 1)
Hundred == Ratio(100, 1)
Same(x, y) == x.num * y.den = y.num * x.den

(***************************************************************************)
(* calculate_financial_health_score                                        *)
(***************************************************************************)
\* monthly_expenses: the expense amounts summed per calendar month
MonthlyExpenses(rows) ==
    [m \in ExpenseMonths(rows) |-> SumAmount(InMonth(Expenses(rows), m))]

ExpenseConsistencyZeroWhenShort(monthly) ==
    LET k == Cardinality(DOMAIN monthly)
        s == SumSet(DOMAIN monthly, monthly)
        sq == SumSet(DOMAIN monthly, [m \in DOMAIN monthly |-> monthly[m] * monthly[m]])
    IN IF k > 1
       THEN Ratio(Scale - ISqrt((Scale * Scale * k * (k * sq - s * s)) \div ((k - 1) * s * s)),
                  Scale)
       ELSE Zero

\* 1 - std / |mean| with the sample standard deviation (ddof = 1) of the
\* k > 1 monthly sums x: std/|mean| = sqrt(k (k Sum x^2 - (Sum x)^2) / ((k-1) (Sum x)^2)),
\* the square root rounded down to a multiple of 1/Scale.
ExpenseConsistency(monthly) ==
    LET k == Cardinality(DOMAIN monthly)
        s == SumSet(DOMAIN monthly, monthly)
        sq == SumSet(DOMAIN monthly, [m \in DOMAIN monthly |-> monthly[m] * monthly[m]])
    IN IF k > 1
       THEN Ratio(Scale - ISqrt((Scale * Scale * k * (k * sq - s * s)) \div ((k - 1) * s * s)),
                  Scale)
       ELSE One

UnclampedScore(score) == score

\* max(0, min(score, 100))
ClampScore(score) == MaxRatio(Zero, MinRatio(score, Hundred))

calculate_financial_health_score(rows) ==
    IF rows = <<>> THEN Zero
    ELSE LET total_income == TotalIncome(rows)
             total_expenses == TotalExpenses(rows)
             savings_rate == IF total_income > 0
                             THEN Ratio(total_income - total_expenses, total_income)
                             ELSE Zero
             expense_categories == Cardinality(ExpenseCategories(rows))
             expense_diversity == MinRatio(Ratio(expense_categories, 5), One)
             expense_consistency ==
                 MaxRatio(Zero, MinRatio(ExpenseConsistency(MonthlyExpenses(rows)), One))
             \* (savings_rate * 0.5 + expense_consistency * 0.3 + expense_diversity * 0.2) * 100
             score == Plus(Times(50, savings_rate),
                           Plus(Times(30, expense_consistency), Times(20, expense_diversity)))
         IN ClampScore(score)

(***************************************************************************)
(* get_spending_insights                                                   *)
(***************************************************************************)
Message(kind, category) == [kind |-> kind, category |-> category]

Placeholder == Message("placeholder", "")

\* category_spending: the expense magnitudes summed per category
CategorySpending(rows) ==
    [c \in ExpenseCategories(rows) |-> -SumAmount(InCategory(Expenses(rows), c))]

\* index[0] after sort_values(ascending=False): the largest sum, the
\* alphabetically first category among equal sums
HighestCategory(spending) ==
    LET top == {c \in DOMAIN spending : \A o \in DOMAIN spending : spending[o] <= spending[c]}
        i == CHOOSE j \in 1..Len(SortedCategories) :
                 /\ SortedCategories[j] \in top
                 /\ \A h \in 1..(j - 1) : SortedCategories[h] \notin top
    IN SortedCategories[i]

CategoryInsightsAtLeast40(rows) ==
    IF ExpenseCategories(rows) = {} THEN <<>>
    ELSE LET category_spending == CategorySpending(rows)
             highest_category == HighestCategory(category_spending)
             percentage == Ratio(category_spending[highest_category] * 100,
                                 SumSet(DOMAIN category_spending, category_spending))
         IN <<Message("top", highest_category)>>
            \o (IF LessEq(Ratio(40, 1), percentage)
                THEN <<Message("concentration", highest_category)>> ELSE <<>>)

CategoryInsights(rows) ==
    IF ExpenseCategories(rows) = {} THEN <<>>
    ELSE LET category_spending == CategorySpending(rows)
             highest_category == HighestCategory(category_spending)
             highest_amount == category_spending[highest_category]
             total_expenses == SumSet(DOMAIN category_spending, category_spending)
             percentage == Ratio(highest_amount * 100, total_expenses)
         IN <<Message("top", highest_category)>>
            \o (IF Less(Ratio(40, 1), percentage)
                THEN <<Message("concentration", highest_category)>> ELSE <<>>)

SavingsInsights(rows) ==
    LET total_income == TotalIncome(rows)
        total_expenses == TotalExpenses(rows)
    IN IF total_income > 0
       THEN LET savings_rate == Ratio((total_income - total_expenses) * 100, total_income)
            IN IF LessEq(Ratio(20, 1), savings_rate) THEN <<Message("celebratory", "")>>
               ELSE IF LessEq(Ratio(10, 1), savings_rate) THEN <<Message("positive", "")>>
               ELSE IF Less(Zero, savings_rate) THEN <<Message("encouraging", "")>>
               ELSE <<Message("overspend", "")>>
       ELSE <<>>

InsightsWithoutEmptyCheck(rows) == CategoryInsights(rows) \o SavingsInsights(rows)

get_spending_insights(rows) ==
    IF rows = <<>> THEN <<Placeholder>>
    ELSE CategoryInsights(rows) \o SavingsInsights(rows)

(***************************************************************************)
(* The transaction frame: sample data, the form's concat, read_csv, Clean  *)
(***************************************************************************)
load_sample_data ==
    Frame(ColumnNames,
          << Row(Stamp(1, 1), Num(50), "Salary", "Monthly salary"),
             Row(Stamp(1, 2), Num(-5), "Food", "Groceries"),
             Row(Stamp(1, 3), Num(-15), "Bills", "Electricity and water"),
             Row(Stamp(1, 5), Num(-3), "Transport", "Fuel"),
             Row(Stamp(1, 10), Num(-8), "Shopping", "Clothes"),
             Row(Stamp(1, 15), Num(5), "Other", "Freelance work"),
             Row(Stamp(2, 1), Num(52), "Salary", "Monthly salary with bonus"),
             Row(Stamp(2, 3), Num(-6), "Food", "Groceries and dining"),
             Row(Stamp(2, 5), Num(-12), "Bills", "Rent and utilities") >>)

IsEmpty(frame) == frame.rows = <<>>                 \* df.empty

ConcatInFront(frame, row) ==
    Frame(frame.columns \cup ColumnNames, <<row>> \o frame.rows)

\* pd.concat([df, new_data], ignore_index=True): the union of the columns, a
\* row keeps NaN in a column its frame did not have
Concat(frame, row) == Frame(frame.columns \cup ColumnNames, Append(frame.rows, row))

\* An uploaded file: its header line and its lines, each cell as text.
File(header, lines) == [header |-> header, lines |-> lines]

AllColumns == <<"Date", "Amount", "Category", "Description">>

Uploads ==
    { File(AllColumns, <<Row(DateText(2, 1), NumText(-9), "Food", "lunch")>>),
      File(AllColumns, <<Row(DateText(1, 1), NumText(0), "Food", "lunch")>>),
      File(AllColumns, <<Row(DateText(1, 1), BadNumText, "Food", "lunch")>>),
      File(AllColumns, <<Row(BadDateText, NumText(-9), "Food", "lunch")>>),
      File(<<"Date", "Category", "Description">>,
           <<Row(DateText(1, 1), NaN, "Food", "lunch")>>),
      File(<<>>, <<>>) }

\* pd.read_csv: raises on a file without a header line; otherwise every
\* column of the header becomes a column of the frame, dates stay text, and
\* the Amount column is numeric when every cell of it is a number.
ReadRaises(file) == file.header = <<>>

read_csv(file) ==
    LET numeric == \A i \in 1..Len(file.lines) : file.lines[i].Amount.k = "str"
        cell(a) == IF numeric THEN Num(a.v) ELSE a
    IN Frame(Range(file.header),
             [i \in 1..Len(file.lines) |->
                 [file.lines[i] EXCEPT !.Amount =
                     IF "Amount" \in Range(file.header) THEN cell(@) ELSE NaN]])

\* drop_duplicates(): the first of the rows equal in every column is kept
RECURSIVE drop_duplicates(_)
drop_duplicates(rows) ==
    IF rows = <<>> THEN <<>>
    ELSE LET front == drop_duplicates(SubSeq(rows, 1, Len(rows) - 1))
             last == rows[Len(rows)]
         IN IF last \in Range(front) THEN front ELSE Append(front, last)

\* The order of two Date cells of one Python type; text compares as text (a
\* text that is no date is taken to sort after the dates), NaT sorts last.
DateKey(c) == IF c.k \in {"bad", "nat"} THEN 100000 ELSE c.m * 100 + c.d
DateLess(a, b) == DateKey(a) < DateKey(b)

DateType(c) == IF c.k = "bad" THEN "str" ELSE c.k

\* sort_values("Date") raises without the column and on cells of different
\* Python types ('<' not supported)
SortRaises(frame) ==
    \/ "Date" \notin frame.columns
    \/ Cardinality({DateType(r.Date) : r \in Range(frame.rows)} \ {"nat"}) > 1

\* The frames of the model have at most 16 rows, where numpy's sort is an
\* insertion sort: rows of equal date keep their order.
RECURSIVE Insert(_, _)
Insert(sorted, r) ==
    IF sorted = <<>> THEN <<r>>
    ELSE IF DateLess(r.Date, sorted[Len(sorted)].Date)
         THEN Append(Insert(SubSeq(sorted, 1, Len(sorted) - 1), r), sorted[Len(sorted)])
         ELSE Append(sorted, r)

RECURSIVE sort_values(_)
sort_values(rows) ==
    IF rows = <<>> THEN <<>>
    ELSE Insert(sort_values(SubSeq(rows, 1, Len(rows) - 1)), rows[Len(rows)])

CleanData(frame) ==
    IF SortRaises(frame) THEN frame
    ELSE Frame(frame.columns, sort_values(drop_duplicates(frame.rows)))

\* pd.to_datetime(df["Date"]) raises without the column and on a text that
\* is no date; df["Amount"] > 0 raises without the column and on a text cell
DatesRaise(frame) ==
    \/ "Date" \notin frame.columns
    \/ \E r \in Range(frame.rows) : r.Date.k = "bad"

AmountsRaise(frame, rows) ==
    \/ "Amount" \notin frame.columns
    \/ \E r \in Range(rows) : r.Amount.k \in {"str", "bad"}

(***************************************************************************)
(* The budget mapping: a dict, kept in insertion order                     *)
(***************************************************************************)
Budget(category, limit) == [Category |-> category, Budget |-> limit]

DefaultBudgets ==
    << Budget("Food", 10), Budget("Shopping", 5), Budget("Transport", 3),
       Budget("Bills", 15), Budget("Other", 5) >>

BudgetInputs ==
    <<"Food", "Shopping", "Transport", "Bills", "Entertainment", "Healthcare", "Other">>

FallbackBudget == 5

Keys(b) == {b[i].Category : i \in 1..Len(b)}

\* budgets.get(category, default)
Get(b, category, default) ==
    IF category \in Keys(b)
    THEN b[CHOOSE i \in 1..Len(b) : b[i].Category = category].Budget
    ELSE default

\* budgets[category] = limit
Put(b, category, limit) ==
    IF category \in Keys(b)
    THEN [i \in 1..Len(b) |-> IF b[i].Category = category THEN Budget(category, limit) ELSE b[i]]
    ELSE Append(b, Budget(category, limit))

NoEdit == [category |-> "", limit |-> 0]

\* The loop over the seven number inputs: each writes the value of its
\* widget, which is what the user typed or else budgets.get(category, 5000).
RECURSIVE SetMonthlyBudgets(_, _, _)
SetMonthlyBudgets(b, n, edit) ==
    IF n = 0 THEN b
    ELSE LET before == SetMonthlyBudgets(b, n - 1, edit)
             category == BudgetInputs[n]
         IN Put(before, category,
                IF edit.category = category THEN edit.limit
                ELSE Get(before, category, FallbackBudget))

UsagePercentFullOnZero(actual, budget) ==
    IF budget > 0 THEN Ratio(actual * 100, budget) ELSE Hundred

\* (actual / budget * 100) if budget > 0 else 0
UsagePercent(actual, budget) ==
    IF budget > 0 THEN Ratio(actual * 100, budget) ELSE Zero

BudgetStatus(usage_pct) ==
    IF Less(Hundred, usage_pct) THEN "over"
    ELSE IF Less(Ratio(80, 1), usage_pct) THEN "near"
    ELSE "ok"

\* One dict of budget_comparison, with the status its row is displayed with
BudgetRow(entry, expense_data) ==
    LET actual == IF entry.Category \in ExpenseCategories(expense_data)
                  THEN Abs(SumAmount(InCategory(expense_data, entry.Category)))
                  ELSE 0
        usage == UsagePercent(actual, entry.Budget)
    IN [Category |-> entry.Category, Budget |-> entry.Budget, Actual |-> actual,
        Remaining |-> entry.Budget - actual, Usage |-> usage,
        Status |-> BudgetStatus(usage)]

BudgetComparisonOfSpent(b, expense_data) ==
    LET spent == SelectSeq(b, LAMBDA e : e.Category \in ExpenseCategories(expense_data))
    IN [i \in 1..Len(spent) |-> BudgetRow(spent[i], expense_data)]

\* budget_comparison: one record per item of the mapping, in its order
BudgetComparison(b, expense_data) ==
    [i \in 1..Len(b) |-> BudgetRow(b[i], expense_data)]

Raised == [kind |-> "exception"]

\* "Budget vs Actual (Current Month)"
BudgetView(frame, b, month) ==
    IF IsEmpty(frame) THEN [kind |-> "budget", shown |-> FALSE, comparison |-> <<>>]
    ELSE IF DatesRaise(frame) THEN Raised
    ELSE LET monthly_data == InMonth(frame.rows, month)
         IN IF AmountsRaise(frame, monthly_data) THEN Raised
            ELSE LET expense_data == Expenses(monthly_data)
                 IN IF expense_data = <<>>
                    THEN [kind |-> "budget", shown |-> FALSE, comparison |-> <<>>]
                    ELSE IF "Category" \notin frame.columns THEN Raised
                    ELSE [kind |-> "budget", shown |-> TRUE,
                          comparison |-> BudgetComparison(b, expense_data)]

(***************************************************************************)
(* Analytics and Dashboard pages                                           *)
(***************************************************************************)
AnalyticsView(frame) ==
    IF IsEmpty(frame) THEN [kind |-> "analytics", shown |-> FALSE]
    ELSE IF DatesRaise(frame) \/ AmountsRaise(frame, frame.rows)
            \/ "Category" \notin frame.columns THEN Raised
    ELSE [kind |-> "analytics", shown |-> TRUE,
          health_score |-> calculate_financial_health_score(frame.rows),
          insights |-> get_spending_insights(frame.rows)]

RateFullOnZero(numerator, denominator) ==
    IF denominator > 0 THEN Ratio(numerator * 100, denominator) ELSE Hundred

\* (numerator / denominator * 100) if denominator > 0 else 0: savings_rate,
\* goal_progress and annual_progress
Rate(numerator, denominator) ==
    IF denominator > 0 THEN Ratio(numerator * 100, denominator) ELSE Zero

\* The widgets of the Dashboard: the date range (a pair, or a selection in
\* progress), the months, the categories and the two goals.
DashboardInputs(range, months, categories, monthly_goal, annual_goal) ==
    [range |-> range, months |-> months, categories |-> categories,
     monthly_goal |-> monthly_goal, annual_goal |-> annual_goal]

InRange(row, range) ==
    \/ Len(range) # 2
    \/ /\ row.Date.k # "nat"
       /\ DateKey(range[1]) <= DateKey(row.Date)
       /\ DateKey(row.Date) <= DateKey(range[2])

DashboardView(frame, inputs, month) ==
    IF IsEmpty(frame) THEN [kind |-> "dashboard", shown |-> FALSE]
    ELSE IF DatesRaise(frame) \/ "Category" \notin frame.columns THEN Raised
    ELSE LET df_range == SelectSeq(frame.rows, LAMBDA r : InRange(r, inputs.range))
             df_filtered == SelectSeq(df_range,
                                LAMBDA r : /\ r.Date.k # "nat"
                                           /\ r.Date.m \in inputs.months
                                           /\ r.Category \in inputs.categories)
         IN IF AmountsRaise(frame, df_filtered) THEN Raised
            ELSE LET total_income == TotalIncome(df_filtered)
                     total_expenses == TotalExpenses(df_filtered)
                     savings == total_income - total_expenses
                     current_month_savings == SumAmount(InMonth(df_filtered, month))
                 IN [kind |-> "dashboard", shown |-> TRUE,
                     total_income |-> total_income,
                     total_expenses |-> total_expenses,
                     savings |-> savings,
                     savings_rate |-> Rate(savings, total_income),
                     transaction_count |-> Len(df_filtered),
                     monthly_goal |-> inputs.monthly_goal,
                     current_month_savings |-> current_month_savings,
                     goal_progress |-> Rate(current_month_savings, inputs.monthly_goal),
                     annual_goal |-> inputs.annual_goal,
                     annual_progress |-> Rate(savings, inputs.annual_goal)]

(***************************************************************************)
(* One run of the script: the sidebar, then the selected page              *)
(***************************************************************************)
Pages == {"Dashboard", "Add", "Budget", "Analytics", "Settings"}

\* What the user can type within the bounds of the model
FormDays == {1}
FormAmounts == {-9, 0, 20}
SubmitCategories == {"Food"}
Descriptions == {""}
EditableCategories == {"Food"}
BudgetValues == {0, 20}
Goals == {<<10, 120>>, <<0, 0>>}      \* the monthly and the annual goal
CurrentMonths == {1, 2}               \* the month the session runs in

\* to_datetime and the Month column, written to the frame the page works on
PageFrame(frame) ==
    Frame(frame.columns \cup {"Month"},
          [i \in 1..Len(frame.rows) |->
              [frame.rows[i] EXCEPT !.Date =
                  IF @.k \in {"date", "str"} THEN Stamp(@.m, @.d) ELSE @]])

StoreSharedWithPage(frame, p) ==
    IF p \in {"Dashboard", "Analytics"} /\ ~IsEmpty(frame) /\ ~DatesRaise(frame)
    THEN PageFrame(frame)
    ELSE frame

\* df = st.session_state.df.copy(): a page assigns columns of its copy only
StoreAfterPage(frame, p) == frame

DateCells(frame) == {r.Date : r \in Range(frame.rows)}

MinDate(frame) ==
    CHOOSE a \in DateCells(frame) : \A b \in DateCells(frame) : DateKey(a) <= DateKey(b)

NoInputs == DashboardInputs(<<>>, {}, {}, 0, 0)

MaxDate(frame) ==
    CHOOSE a \in DateCells(frame) : \A b \in DateCells(frame) : DateKey(b) <= DateKey(a)

\* The widget values tried on the Dashboard: the whole date range or its
\* first day alone; every month or the current one; every category or none;
\* the default goals or goals of 0.
InputsFor(p, frame) ==
    IF p = "Dashboard" /\ ~IsEmpty(frame)
    THEN LET months == {r.Date.m : r \in Range(frame.rows)}
             categories == {r.Category : r \in Range(frame.rows)}
         IN { DashboardInputs(range, ms, cs, g[1], g[2]) :
                range \in {<<MinDate(frame), MinDate(frame)>>,
                           <<MinDate(frame), MaxDate(frame)>>},
                ms \in {months, months \cap {now}},
                cs \in {categories, {}},
                g \in Goals }
    ELSE {NoInputs}

\* What the user did to the widgets of the page in this run: the budget
\* input changed, the file in the uploader, the submitted form
Widgets(edit, file, form) == [edit |-> edit, file |-> file, form |-> form]
NoForm == [submitted |-> FALSE, amount |-> 0]
Submitted(amount) == [submitted |-> TRUE, amount |-> amount]

PageView(p, frame, b, inputs, month, widgets) ==
    CASE p = "Dashboard" -> DashboardView(frame, inputs, month)
      [] p = "Add" -> [kind |-> "form", submitted |-> widgets.form.submitted,
                       amount |-> widgets.form.amount]
      [] p = "Budget" -> BudgetView(frame, b, month)
      [] p = "Analytics" -> AnalyticsView(frame)
      [] p = "Settings" -> [kind |-> "settings",
                            read_error |-> widgets.file # <<>> /\ ReadRaises(widgets.file[1])]

\* The rest of a run once the event has been handled: frame is the store the
\* event left, message its feedback.
Rerun(event, p, frame, message, widgets) ==
    /\ op' = event
    /\ page' = p
    /\ msg' = message
    /\ now' = now
    /\ upload' = IF p = "Settings" THEN widgets.file ELSE <<>>
    /\ budgets' = IF p = "Budget"
                  THEN SetMonthlyBudgets(budgets, Len(BudgetInputs), widgets.edit)
                  ELSE budgets
    /\ df' = StoreAfterPage(frame, p)
    /\ \E inputs \in InputsFor(p, frame) :
          view' = PageView(p, frame, budgets', inputs, now, widgets)

Init ==
    /\ df = EmptyFrame
    /\ budgets = DefaultBudgets
    /\ page = "Dashboard"
    /\ now \in CurrentMonths
    /\ op = "start"
    /\ msg = "none"
    /\ view = DashboardView(EmptyFrame, NoInputs, now)
    /\ upload = <<>>

\* The selectbox of the sidebar
Navigate(p) ==
    /\ p # page
    /\ Rerun("view", p, df, "none", Widgets(NoEdit, <<>>, NoForm))

\* A widget of the shown page changed (a filter, a goal) or the page reran
Interact ==
    Rerun("view", page, df, "none", Widgets(NoEdit, upload, NoForm))

LoadSampleData ==
    Rerun("load_sample", page, load_sample_data, "sample_loaded",
          Widgets(NoEdit, upload, NoForm))

ClearAllData ==
    Rerun("clear", page, EmptyFrame, "cleared", Widgets(NoEdit, upload, NoForm))

AcceptedAlways(amount) == TRUE

\* submitted and amount != 0
Accepted(amount) == amount # 0

\* The transaction form
AddTransaction(date, amount, category, description) ==
    /\ page = "Add"
    /\ IF Accepted(amount)
       THEN /\ Len(df.rows) < MaxRows
            /\ Rerun("submit", page,
                     Concat(df, Row(date, Num(amount), category, description)),
                     "added", Widgets(NoEdit, <<>>, Submitted(amount)))
       ELSE Rerun("submit", page, df, "zero_warning",
                  Widgets(NoEdit, <<>>, Submitted(amount)))

\* A number input of the Budget Manager
EditBudget(category, limit) ==
    /\ page = "Budget"
    /\ Rerun("edit_budget", page, df, "none",
             Widgets([category |-> category, limit |-> limit], <<>>, NoForm))

\* The file uploader of the Settings page
UploadFile(file) ==
    /\ page = "Settings"
    /\ Rerun("upload", page, df, "none", Widgets(NoEdit, <<file>>, NoForm))

\* The Import Data button, drawn once read_csv has returned
ImportData ==
    /\ page = "Settings"
    /\ upload # <<>>
    /\ ~ReadRaises(upload[1])
    /\ Rerun("import", page, read_csv(upload[1]), "imported",
             Widgets(NoEdit, upload, NoForm))

CleanDataButton ==
    /\ page = "Settings"
    /\ Rerun("clean", page, CleanData(df),
             IF SortRaises(df) THEN "exception" ELSE "cleaned",
             Widgets(NoEdit, upload, NoForm))

Next ==
    \/ \E p \in Pages : Navigate(p)
    \/ Interact
    \/ LoadSampleData
    \/ ClearAllData
    \/ \E m \in Months, d \in FormDays, amount \in FormAmounts,
          category \in SubmitCategories, description \in Descriptions :
          AddTransaction(DateOf(m, d), amount, category, description)
    \/ \E category \in EditableCategories, limit \in BudgetValues :
          EditBudget(category, limit)
    \/ \E file \in Uploads : UploadFile(file)
    \/ ImportData
    \/ CleanDataButton

Spec == Init /\ [][Next]_vars

(***************************************************************************)
(* The two functions of the Analytics page applied to any transaction set  *)
(***************************************************************************)
FnDates == {Stamp(1, 1), Stamp(2, 1)}
FnExpenses == {-4, -8, -10}
FnCategories == {"Food", "Bills", "Shopping"}

\* One income, the expenses of every category in either month, and one
\* expense that nearly uses the income up
FnRows ==
    {Row(Stamp(1, 1), Num(20), "Salary", "")}
    \cup {Row(date, Num(amount), category, "") :
             date \in FnDates, amount \in FnExpenses, category \in FnCategories}
    \cup {Row(date, Num(-19), "Food", "") : date \in FnDates}

FnSets == UNION {[1..n -> FnRows] : n \in 0..FnMaxLen}

InitFn ==
    /\ df \in {Frame(ColumnNames, rows) : rows \in FnSets}
    /\ budgets = DefaultBudgets
    /\ page = "Analytics"
    /\ now = 1
    /\ op = "input"
    /\ msg = "none"
    /\ view = [kind |-> "none"]
    /\ upload = <<>>

HealthScore ==
    /\ view' = [kind |-> "health_score", score |-> calculate_financial_health_score(df.rows)]
    /\ op' = "health_score"
    /\ UNCHANGED <<df, budgets, page, now, msg, upload>>

SpendingInsights ==
    /\ view' = [kind |-> "insights", insights |-> get_spending_insights(df.rows)]
    /\ op' = "insights"
    /\ UNCHANGED <<df, budgets, page, now, msg, upload>>

NextFn == HealthScore \/ SpendingInsights

SpecFn == InitFn /\ [][NextFn]_vars

(***************************************************************************)
(* Properties                                                              *)
(***************************************************************************)
Mutations == {"submit", "load_sample", "clear", "import", "clean"}

\* A table that misses a required column or holds a date or an amount that
\* does not parse
Malformed(file) ==
    \/ ~(ColumnNames \subseteq Range(file.header))
    \/ \E i \in 1..Len(file.lines) :
          file.lines[i].Date.k = "bad" \/ file.lines[i].Amount.k = "bad"

\* Every record is a transaction: the four columns, dates and amounts that parse
WellFormed(frame) ==
    /\ ColumnNames \subseteq frame.columns
    /\ ~DatesRaise(frame)
    /\ ~AmountsRaise(frame, frame.rows)

CurrentExpenses(frame, month) == Expenses(InMonth(frame.rows, month))

\* C1: in every reachable state every stored transaction has amount != 0.
AmountNeverZero ==
    \A i \in 1..Len(df.rows) :
        df.rows[i].Amount.k \in {"num", "str"} => df.rows[i].Amount.v # 0

\* C2: a submission with amount 0 is answered by the warning, not by the
\* acknowledgment, and leaves the store and the budget mapping as they were.
ZeroAmountRejected ==
    [][(op' = "submit" /\ view'.amount = 0)
          => (msg' = "zero_warning" /\ df' = df /\ budgets' = budgets)]_vars

ZeroAmountSubmitted ==
    /\ op = "submit"
    /\ view.amount = 0
    /\ msg = "zero_warning"
    /\ df.rows # <<>>

\* C3: an import of a table that misses a required column or holds an
\* unparsable date or amount is rejected and leaves the store unchanged.
MalformedImportRejected ==
    [][(op' = "import" /\ Malformed(upload'[1]))
          => (df' = df /\ msg' # "imported")]_vars

\* C4: the health score lies in [0,100] and is exactly 0 for the empty set.
HealthScoreInRange ==
    view.kind = "health_score" =>
        /\ LessEq(Zero, view.score)
        /\ LessEq(view.score, Hundred)
        /\ (df.rows = <<>> => view.score.num = 0)

\* the weighted sum of a non-empty set lies below 0 and the score is 0
HealthScoreClamped ==
    /\ view.kind = "health_score"
    /\ df.rows # <<>>
    /\ view.score.num = 0
    /\ TotalExpenses(df.rows) > TotalIncome(df.rows)
    /\ TotalIncome(df.rows) > 0

\* C5: a ratio with denominator 0 is exactly 0: the savings rate without
\* income, the usage percent of a budget of 0 whatever was spent, the
\* monthly and the annual goal progress of a goal of 0.
ZeroDenominatorYieldsZero ==
    /\ (view.kind = "dashboard" /\ view.shown) =>
          /\ (view.total_income = 0 => view.savings_rate.num = 0)
          /\ (view.monthly_goal = 0 => view.goal_progress.num = 0)
          /\ (view.annual_goal = 0 => view.annual_progress.num = 0)
    /\ (view.kind = "budget" /\ view.shown) =>
          \A i \in 1..Len(view.comparison) :
              view.comparison[i].Budget = 0 => view.comparison[i].Usage.num = 0

ZeroBudgetWithSpending ==
    /\ view.kind = "budget"
    /\ view.shown
    /\ \E i \in 1..Len(view.comparison) :
          /\ view.comparison[i].Budget = 0
          /\ view.comparison[i].Actual > 0
          /\ view.comparison[i].Usage.num = 0

\* The records of the tracker follow the mapping, one per category and in
\* its order, a category without expense in the current month with actual 0,
\* remaining = budget and status on-track.
RecordPerCategory ==
    /\ Len(view.comparison) = Len(budgets)
    /\ \A i \in 1..Len(budgets) :
          /\ view.comparison[i].Category = budgets[i].Category
          /\ view.comparison[i].Budget = budgets[i].Budget
          /\ InCategory(CurrentExpenses(df, now), budgets[i].Category) = <<>> =>
                /\ view.comparison[i].Actual = 0
                /\ view.comparison[i].Remaining = budgets[i].Budget
                /\ view.comparison[i].Status = "ok"

\* C6 as stated: for every store, also an empty one and one without expense
\* in the current month, the Budget Tracker produces one status record per
\* category of the mapping, in its order, with actual 0 where nothing was spent.
RecordPerCategoryForEveryStore ==
    (page = "Budget" /\ WellFormed(df)) => (view.kind = "budget" /\ RecordPerCategory)

\* C6 as amended: for a store with an expense in the current month the
\* tracker produces one status record per category of the mapping, in its
\* order, with actual 0, remaining = budget and status on-track where nothing
\* was spent this month; for a store that is empty or has no expense in the
\* current month it produces no record.
RecordPerCategoryWhenSpent ==
    (page = "Budget" /\ WellFormed(df)) =>
        /\ view.kind = "budget"
        /\ view.shown = (CurrentExpenses(df, now) # <<>>)
        /\ view.shown => RecordPerCategory
        /\ ~view.shown => view.comparison = <<>>

SpentAndUnspentCategories ==
    /\ page = "Budget"
    /\ WellFormed(df)
    /\ view.kind = "budget"
    /\ view.shown
    /\ \E i, j \in 1..Len(view.comparison) :
          view.comparison[i].Actual > 0 /\ view.comparison[j].Actual = 0

\* C7: the budget mapping changes only in a run in which the user edits a limit.
BudgetsChangeOnlyByEdit ==
    [][budgets' # budgets => op' = "edit_budget"]_vars

\* C8: the stored records change only in a run that is an add-transaction
\* submission, Load Sample Data, Clear All Data, Import Data or Clean Data; a
\* run that only computes a view leaves them as they were, and after Load
\* Sample Data and Clear All Data the store is what the button set, whatever
\* page was drawn in the same run.
StoreChangesOnlyByMutation ==
    [][/\ df' # df => op' \in Mutations
       /\ op' = "load_sample" => df' = load_sample_data
       /\ op' = "clear" => df' = EmptyFrame]_vars

ViewOfStoredData ==
    /\ op = "view"
    /\ page = "Dashboard"
    /\ view.kind = "dashboard"
    /\ view.shown
    /\ \E i \in 1..Len(df.rows) : df.rows[i].Date.k # "ts"

\* C9: the insights of the empty set are the placeholder alone; the insights
\* of a non-empty set never hold the placeholder.
PlaceholderOnlyWhenEmpty ==
    view.kind = "insights" =>
        /\ df.rows = <<>> => view.insights = <<Placeholder>>
        /\ df.rows # <<>> => Placeholder \notin Range(view.insights)

InsightsOfEmptySet ==
    /\ view.kind = "insights"
    /\ df.rows = <<>>
    /\ Len(view.insights) = 1

Spent(rows, c) == -SumAmount(InCategory(Expenses(rows), c))

IsLargest(rows, c) ==
    /\ c \in ExpenseCategories(rows)
    /\ \A o \in ExpenseCategories(rows) : Spent(rows, o) <= Spent(rows, c)

ExpectedKinds(rows) ==
    LET income == TotalIncome(rows)
        spent == TotalExpenses(rows)
        saved == income - spent
    IN (IF Expenses(rows) # <<>> THEN <<"top">> ELSE <<>>)
       \o (IF \E c \in ExpenseCategories(rows) : 100 * Spent(rows, c) > 40 * spent
           THEN <<"concentration">> ELSE <<>>)
       \o (IF income > 0
           THEN (IF 100 * saved >= 20 * income THEN <<"celebratory">>
                 ELSE IF 100 * saved >= 10 * income THEN <<"positive">>
                 ELSE IF saved > 0 THEN <<"encouraging">>
                 ELSE <<"overspend">>)
           ELSE <<>>)

\* C10: the insights of a non-empty set are, in this order, the top-category
\* message iff there is an expense, the concentration warning iff that
\* category's share of the expenses is > 40%, and one savings message iff
\* the income is > 0: celebratory from 20%, positive from 10%, encouraging
\* above 0%, the overspend warning otherwise; nothing else.
InsightsInOrder ==
    (view.kind = "insights" /\ df.rows # <<>>) =>
        /\ [i \in 1..Len(view.insights) |-> view.insights[i].kind] = ExpectedKinds(df.rows)
        /\ \A i \in 1..Len(view.insights) :
              view.insights[i].kind \in {"top", "concentration"} =>
                  IsLargest(df.rows, view.insights[i].category)

ThreeInsightsAtTwentyPercent ==
    /\ view.kind = "insights"
    /\ [i \in 1..Len(view.insights) |-> view.insights[i].kind]
          = <<"top", "concentration", "celebratory">>
    /\ 100 * (TotalIncome(df.rows) - TotalExpenses(df.rows)) = 20 * TotalIncome(df.rows)

\* The place of the first record equal to r
FirstIndex(rows, r) ==
    CHOOSE i \in 1..Len(rows) : rows[i] = r /\ \A j \in 1..(i - 1) : rows[j] # r

\* after holds the distinct records of before, each once, by ascending date,
\* records of one date in the order of their first insertion
Deduplicated(before, after) ==
    /\ \A i, j \in 1..Len(after) : i # j => after[i] # after[j]
    /\ Range(after) = Range(before)
    /\ \A i, j \in 1..Len(after) :
          i < j =>
             /\ DateKey(after[i].Date) <= DateKey(after[j].Date)
             /\ DateKey(after[i].Date) = DateKey(after[j].Date) =>
                   FirstIndex(before, after[i]) < FirstIndex(before, after[j])

\* C11: after Clean Data on a store of transactions the store holds no two
\* equal records, exactly the distinct records it held before, by ascending
\* date with records of one date in insertion order, and a second Clean Data
\* changes nothing.
CleanDataDeduplicatesAndSorts ==
    [][(op' = "clean" /\ WellFormed(df))
          => (Deduplicated(df.rows, df'.rows) /\ CleanData(df') = df')]_vars

ScoreOfFewMonths(rows) ==
    LET income == TotalIncome(rows)
        spent == TotalExpenses(rows)
        categories == Cardinality({r.Category : r \in {x \in Range(rows) : x.Amount.v < 0}})
        fixed == 30 + 4 * Min2(categories, 5)
        num == IF income > 0 THEN 50 * (income - spent) + fixed * income ELSE fixed
        den == IF income > 0 THEN income ELSE 1
    IN IF num < 0 THEN Ratio(0, 1)
       ELSE IF num > 100 * den THEN Ratio(100, 1)
       ELSE Ratio(num, den)

====
